---------------------------- MODULE Spec2Model ----------------------------
(***************************************************************************)
(* Deployment state reconciliation of src/app.py: the assignments table    *)
(* (the Store), each browser session's st.session_state (page, positions   *)
(* = the Draft, is_changed = the dirty flag) and the handlers that load,   *)
(* edit, reset and save.  A Save is a loop of update_position calls, each  *)
(* a select followed by at most one insert / update / delete; the model    *)
(* takes one step per transport call so that calls of independent          *)
(* sessions interleave exactly where the code lets them.                   *)
(***************************************************************************)
EXTENDS Naturals, Sequences, FiniteSets

VARIABLES
    store,        \* the assignments table: a set of rows
    page,         \* st.session_state.page, per session
    positions,    \* st.session_state.positions, per session (ordered dict of dicts)
    is_changed,   \* st.session_state.is_changed, per session
    pc,           \* where the session's script is: new, idle, select, write
    idx,          \* Save loop: index of the item being written (0 outside a Save)
    found,        \* update_position: bool(response.data) of the select
    success,      \* Save handler's local flag
    failedSlots,  \* history: slots whose update_position returned False in this Save
    overlap,      \* history: another session wrote this slot since our select
    loaded,       \* history: the slot/name pairs the last load_positions returned
    trail,        \* history: the last thing done to the Draft: loaded, edited, reset
    current_deployment,  \* the current_deployment table: a set of rows
    csv_data,     \* Export CSV: the rows built in the session's current script run
    baseline,     \* history: the Draft as of the last load or successful Save
    touched       \* history: the slots whose Draft value a handler changed since the last load

vars == <<store, page, positions, is_changed, pc, idx, found, success,
          failedSlots, overlap, loaded, trail, current_deployment, csv_data, baseline, touched>>

----------------------------------------------------------------------------
(* Bounds and program constants *)

\* How many of the non-empty sample names the modelled users pick from.
NumNames == 2

sample_names ==
    <<"", "LTA SHABIR", "WO2 AMIN", "SGT MUZAMIL", "SGT SULTAN", "CPL PUTRA",
      "LCP BU XIANG XUAN", "LCP QUINN", "SGT RAIHAN", "LCP HAROUN", "SGT FAUZI",
      "SGT ADLY", "LCP NATHAN", "ORNS 1", "ORNS 2", "WO2 AZHAR", "SGT3 ZHUBRAN",
      "SSG AHMAD", "WO2 ZULHAINI", "LCP KHAMBHATI", "LCP CHINMAY">>

Names == {sample_names[i] : i \in 1..(NumNames + 1)}

\* Browser sessions; Spec runs the first alone, SpecConc runs both.
Sessions == {"s1", "s2"}

SoloSessions == {"s1"}

VehicleList == <<"PL181", "LF181E", "CPL181E", "A181D", "A182D">>

get_positions_for_vehicle(vehicle) ==
    IF vehicle = "PL181" THEN <<"RC", "DRC", "PO", "SC", "FF1", "FF2", "FF3">>
    ELSE IF vehicle = "LF181E" THEN <<"PO", "SC", "FF1", "FF2">>
    ELSE IF vehicle = "CPL181E" THEN <<"PO", "SC", "FF1", "FF2", "FF3", "FF4">>
    ELSE IF vehicle \in {"A181D", "A182D"} THEN <<"PRM", "EMTD", "EMT1", "EMT2">>
    ELSE <<>>

Range(seq) == {seq[i] : i \in DOMAIN seq}

\* The 22 slots of the schema.
SchemaSlots ==
    UNION {{<<VehicleList[i], p>> : p \in Range(get_positions_for_vehicle(VehicleList[i]))}
               : i \in DOMAIN VehicleList}

\* The selectboxes of the edit page the modelled users operate.
Widgets == {<<"PL181", "RC">>, <<"A181D", "PRM">>}

\* The one selectbox the sessions of SpecConc compete for.
ConcWidgets == {<<"PL181", "RC">>}

----------------------------------------------------------------------------
(* The Draft: a Python dict of dicts, kept in insertion order *)

VehicleIndex(d, vehicle) ==
    IF \E k \in DOMAIN d : d[k].vehicle = vehicle
    THEN CHOOSE k \in DOMAIN d : d[k].vehicle = vehicle
    ELSE 0

HasVehicle(d, vehicle) == VehicleIndex(d, vehicle) # 0

VehicleItems(d, vehicle) ==
    IF HasVehicle(d, vehicle) THEN d[VehicleIndex(d, vehicle)].items ELSE <<>>

PositionIndex(items, position) ==
    IF \E j \in DOMAIN items : items[j].position = position
    THEN CHOOSE j \in DOMAIN items : items[j].position = position
    ELSE 0

\* if vehicle not in positions: positions[vehicle] = {}
AddVehicle(d, vehicle) ==
    IF HasVehicle(d, vehicle) THEN d
    ELSE Append(d, [vehicle |-> vehicle, items |-> <<>>])

\* positions[vehicle][position] = name, for a vehicle that is a key
DictSet(d, vehicle, position, name) ==
    LET k == VehicleIndex(d, vehicle)
        j == PositionIndex(d[k].items, position)
    IN  IF j = 0
        THEN [d EXCEPT ![k].items = Append(@, [position |-> position, name |-> name])]
        ELSE [d EXCEPT ![k].items[j].name = name]

get_position_value(d, vehicle, position) ==
    LET items == VehicleItems(d, vehicle)
        j == PositionIndex(items, position)
    IN  IF j # 0 THEN items[j].name ELSE ""

\* The Draft's value of every schema slot.
DraftValues(d) == [slot \in SchemaSlots |-> get_position_value(d, slot[1], slot[2])]

\* The (vehicle, position, name) triples in the order the nested for loops visit them.
RECURSIVE FlatItems(_)
FlatItems(d) ==
    IF d = <<>> THEN <<>>
    ELSE [j \in DOMAIN Head(d).items |->
              <<Head(d).vehicle, Head(d).items[j].position, Head(d).items[j].name>>]
         \o FlatItems(Tail(d))

----------------------------------------------------------------------------
(* The Store *)

SlotRows(st, vehicle, position) ==
    {r \in st : r.vehicle_code = vehicle /\ r.position_code = position}

\* str(uuid.uuid4()): an id no row of the table has.
FreshId(st) ==
    CHOOSE i \in 1..(Cardinality(st) + 1) : \A r \in st : r.id # i

\* The value of a column the insert payload leaves out.
ColumnDefault == "default"

\* The payload names id, vehicle_code, position_code and personnel_name only.
StoreInsert(st, vehicle, position, name) ==
    st \cup {[id |-> FreshId(st), vehicle_code |-> vehicle,
              position_code |-> position, personnel_name |-> name,
              created_at |-> ColumnDefault, updated_at |-> ColumnDefault]}

\* Mutant: the update loses its .eq filters and rewrites every row.
StoreUpdate_unfiltered(st, vehicle, position, name) ==
    {[r EXCEPT !.personnel_name = name] : r \in st}

StoreUpdate(st, vehicle, position, name) ==
    {IF r.vehicle_code = vehicle /\ r.position_code = position
     THEN [r EXCEPT !.personnel_name = name] ELSE r : r \in st}

\* Mutant: the delete loses its .eq filters and empties the table.
StoreDelete_unfiltered(st, vehicle, position) == {}

\* Mutant: the delete is never executed.
StoreDelete_skipped(st, vehicle, position) == st

StoreDelete(st, vehicle, position) ==
    st \ SlotRows(st, vehicle, position)

\* The orders in which a select without ORDER BY may return the rows.
RowOrders(st) ==
    {f \in [1..Cardinality(st) -> st] : \A i, j \in 1..Cardinality(st) : f[i] = f[j] => i = j}

RECURSIVE GroupRows(_, _)
GroupRows(rows, d) ==
    IF rows = <<>> THEN d
    ELSE LET item == Head(rows)
         IN  GroupRows(Tail(rows),
                       DictSet(AddVehicle(d, item.vehicle_code), item.vehicle_code,
                               item.position_code, item.personnel_name))

\* What load_positions may return: {} on a transport failure.
load_positions(st, ok) ==
    IF ok THEN {GroupRows(rows, <<>>) : rows \in RowOrders(st)} ELSE {<<>>}

\* The slot/name pairs of a Draft or of the Store.
DraftView(d) == Range(FlatItems(d))

StoreView(st) == {<<r.vehicle_code, r.position_code, r.personnel_name>> : r \in st}

----------------------------------------------------------------------------
(* Draft edits *)

on_select_change_positions(d, vehicle, position, new_value) ==
    LET d1 == AddVehicle(d, vehicle)
        old_value == get_position_value(d1, vehicle, position)
    IN  IF new_value # old_value THEN DictSet(d1, vehicle, position, new_value) ELSE d1

\* Mutant: a selection never marks the Draft as changed.
on_select_change_flag_never(d, flag, vehicle, position, new_value) == flag

\* Mutant: every selection marks the Draft as changed.
on_select_change_flag_always(d, flag, vehicle, position, new_value) == TRUE

on_select_change_flag(d, flag, vehicle, position, new_value) ==
    IF new_value # get_position_value(d, vehicle, position) THEN TRUE ELSE flag

\* The slot whose Draft value on_select_change changes, if it changes one.
SelectedSlots(d, vehicle, position, new_value) ==
    IF new_value # get_position_value(d, vehicle, position) THEN {<<vehicle, position>>} ELSE {}

\* The slots whose Draft value clear_form changes: known positions holding a name.
ClearedSlots(d) ==
    {<<item[1], item[2]>> :
        item \in {u \in DraftView(d) :
                     u[3] # "" /\ u[2] \in Range(get_positions_for_vehicle(u[1]))}}

ClearVehicle(d, vehicle) ==
    LET d1 == AddVehicle(d, vehicle)
        k == VehicleIndex(d1, vehicle)
        known == Range(get_positions_for_vehicle(vehicle))
    IN  [d1 EXCEPT ![k].items =
            [j \in DOMAIN @ |-> IF @[j].position \in known
                                THEN [@[j] EXCEPT !.name = ""] ELSE @[j]]]

RECURSIVE ClearVehicles(_, _)
ClearVehicles(d, vehicles) ==
    IF vehicles = <<>> THEN d
    ELSE ClearVehicles(ClearVehicle(d, Head(vehicles)), Tail(vehicles))

\* Mutant: only the first vehicle is cleared.
clear_form_positions_first(d) == ClearVehicle(d, Head(VehicleList))

clear_form_positions(d) == ClearVehicles(d, VehicleList)

\* The (vehicle, position, name) rows home_page shows.
home_page(d) ==
    IF d = <<>> THEN {}
    ELSE {t \in {<<sl[1], sl[2], get_position_value(d, sl[1], sl[2])>> : sl \in SchemaSlots} :
              VehicleItems(d, t[1]) # <<>> /\ t[3] # ""}

----------------------------------------------------------------------------
(* Initial state: an empty table, no session started *)

\* Every session before its first script run.
InitSessions ==
    /\ page = [s \in Sessions |-> "home"]
    /\ positions = [s \in Sessions |-> <<>>]
    /\ is_changed = [s \in Sessions |-> FALSE]
    /\ pc = [s \in Sessions |-> "new"]
    /\ idx = [s \in Sessions |-> 0]
    /\ found = [s \in Sessions |-> FALSE]
    /\ success = [s \in Sessions |-> TRUE]
    /\ failedSlots = [s \in Sessions |-> {}]
    /\ overlap = [s \in Sessions |-> FALSE]
    /\ loaded = [s \in Sessions |-> {}]
    /\ trail = [s \in Sessions |-> "loaded"]
    /\ current_deployment = {}
    /\ csv_data = [s \in Sessions |-> <<>>]
    /\ baseline = [s \in Sessions |-> <<>>]
    /\ touched = [s \in Sessions |-> {}]

Init ==
    /\ store = {}
    /\ InitSessions

\* A name an earlier roster stored that sample_names no longer lists.
StaleName == "SGT RETIRED"

\* The table starts with one row holding the stale name.
InitStale ==
    /\ store = {[id |-> 1, vehicle_code |-> "A181D", position_code |-> "PRM",
                 personnel_name |-> StaleName,
                 created_at |-> ColumnDefault, updated_at |-> ColumnDefault]}
    /\ InitSessions

----------------------------------------------------------------------------
(* Session start and navigation *)

\* Lines 102-110: the first script run of a session.
AppStart(s, ok) ==
    /\ pc[s] = "new"
    /\ \E d \in load_positions(store, ok) :
           /\ positions' = [positions EXCEPT ![s] = d]
           /\ loaded' = [loaded EXCEPT ![s] = DraftView(d)]
           /\ baseline' = [baseline EXCEPT ![s] = d]
           /\ touched' = [touched EXCEPT ![s] = {}]
    /\ page' = [page EXCEPT ![s] = "home"]
    /\ is_changed' = [is_changed EXCEPT ![s] = FALSE]
    /\ pc' = [pc EXCEPT ![s] = "idle"]
    /\ trail' = [trail EXCEPT ![s] = "loaded"]
    /\ UNCHANGED <<store, idx, found, success, failedSlots, overlap, current_deployment>>
    /\ csv_data' = [csv_data EXCEPT ![s] = <<>>]

\* The "Summary View" button: reloads only when the Draft is dirty.
NavSummary(s, ok) ==
    /\ pc[s] = "idle"
    /\ IF is_changed[s]
       THEN /\ \E d \in load_positions(store, ok) :
                   /\ positions' = [positions EXCEPT ![s] = d]
                   /\ loaded' = [loaded EXCEPT ![s] = DraftView(d)]
                   /\ baseline' = [baseline EXCEPT ![s] = d]
                   /\ touched' = [touched EXCEPT ![s] = {}]
            /\ is_changed' = [is_changed EXCEPT ![s] = FALSE]
            /\ trail' = [trail EXCEPT ![s] = "loaded"]
       ELSE /\ ok
            /\ UNCHANGED <<positions, loaded, is_changed, trail, baseline, touched>>
    /\ page' = [page EXCEPT ![s] = "home"]
    /\ UNCHANGED <<store, pc, idx, found, success, failedSlots, overlap, current_deployment>>
    /\ csv_data' = [csv_data EXCEPT ![s] = <<>>]

\* The "Edit Deployment" button: always reloads.
NavEdit(s, ok) ==
    /\ pc[s] = "idle"
    /\ \E d \in load_positions(store, ok) :
           /\ positions' = [positions EXCEPT ![s] = d]
           /\ loaded' = [loaded EXCEPT ![s] = DraftView(d)]
           /\ baseline' = [baseline EXCEPT ![s] = d]
           /\ touched' = [touched EXCEPT ![s] = {}]
    /\ is_changed' = [is_changed EXCEPT ![s] = FALSE]
    /\ trail' = [trail EXCEPT ![s] = "loaded"]
    /\ page' = [page EXCEPT ![s] = "edit"]
    /\ UNCHANGED <<store, pc, idx, found, success, failedSlots, overlap, current_deployment>>
    /\ csv_data' = [csv_data EXCEPT ![s] = <<>>]

----------------------------------------------------------------------------
(* Edit page: selectboxes and Reset All *)

\* A selectbox of the edit page changes to new_value.
OnSelectChange(s, vehicle, position, new_value) ==
    /\ pc[s] = "idle"
    /\ page[s] = "edit"
    /\ positions' = [positions EXCEPT
                        ![s] = on_select_change_positions(@, vehicle, position, new_value)]
    /\ is_changed' = [is_changed EXCEPT
                        ![s] = on_select_change_flag(positions[s], @, vehicle, position, new_value)]
    /\ trail' = [trail EXCEPT ![s] = "edited"]
    /\ touched' = [touched EXCEPT ![s] = @ \cup SelectedSlots(positions[s], vehicle, position, new_value)]
    /\ UNCHANGED <<store, page, pc, idx, found, success, failedSlots, overlap, loaded, current_deployment, baseline>>
    /\ csv_data' = [csv_data EXCEPT ![s] = <<>>]

\* The "Reset All" button.
ClearForm(s) ==
    /\ pc[s] = "idle"
    /\ page[s] = "edit"
    /\ positions' = [positions EXCEPT ![s] = clear_form_positions(@)]
    /\ is_changed' = [is_changed EXCEPT ![s] = TRUE]
    /\ trail' = [trail EXCEPT ![s] = "reset"]
    /\ touched' = [touched EXCEPT ![s] = @ \cup ClearedSlots(positions[s])]
    /\ UNCHANGED <<store, page, pc, idx, found, success, failedSlots, overlap, loaded, current_deployment, baseline>>
    /\ csv_data' = [csv_data EXCEPT ![s] = <<>>]

----------------------------------------------------------------------------
(* Export CSV *)

\* role_descriptions.get(position, '')
role_descriptions(position) ==
    CASE position = "RC" -> "ROTA COMMANDER"
      [] position = "DRC" -> "DEPUTY ROTA COMMANDER"
      [] position \in {"PO", "SC"} -> "SECTION COMMANDER"
      [] position \in {"FF1", "FF2", "FF3", "FF4"} -> "FIREFIGHTER"
      [] position = "PRM" -> "PARAMEDIC"
      [] position = "EMTD" -> "DRIVER"
      [] position \in {"EMT1", "EMT2"} -> "EMT"
      [] OTHER -> ""

\* The rank table; no handler calls it.
order_position(position) ==
    CASE position \in {"RC", "PRM"} -> 0
      [] position \in {"DRC", "EMTD"} -> 1
      [] position \in {"PO", "EMT1"} -> 2
      [] position \in {"SC", "EMT2"} -> 3
      [] position = "FF1" -> 4
      [] position = "FF2" -> 5
      [] position = "FF3" -> 6
      [] position = "FF4" -> 7
      [] OTHER -> 99

\* Mutant: the "if name" test is dropped.
FilledItem_all(item) == TRUE

FilledItem(item) == item[3] # ""

\* csv_data as the Export CSV loops build it.
export_rows(d) ==
    LET filled == SelectSeq(FlatItems(d), FilledItem)
    IN  [i \in DOMAIN filled |->
            [Vehicle |-> filled[i][1], Position |-> filled[i][2],
             Role_Description |-> role_descriptions(filled[i][2]), Name |-> filled[i][3]]]

\* The "Export CSV" button.
Export(s) ==
    /\ pc[s] = "idle"
    /\ page[s] = "edit"
    /\ csv_data' = [csv_data EXCEPT ![s] = export_rows(positions[s])]
    /\ UNCHANGED <<store, page, positions, is_changed, pc, idx, found, success,
                   failedSlots, overlap, loaded, trail, current_deployment, baseline, touched>>

----------------------------------------------------------------------------
(* Save Deployment: one update_position per Draft item *)

\* The item the Save loop is at, and its slot.
CurItem(s) == FlatItems(positions[s])[idx[s]]

CurSlot(s) == <<CurItem(s)[1], CurItem(s)[2]>>

\* Mutant: the result of the select is ignored.
PendingCall_blind(has_data, name) ==
    IF name # "" THEN "insert" ELSE "delete"

\* The write update_position issues after its select: lines 69-94.
PendingCall(has_data, name) ==
    IF has_data THEN (IF name # "" THEN "update" ELSE "delete")
    ELSE (IF name # "" THEN "insert" ELSE "none")

\* Mutant: an empty name is written into the row instead of deleting it.
update_position_write_blank(st, has_data, vehicle, position, name) ==
    IF has_data THEN StoreUpdate(st, vehicle, position, name)
    ELSE IF name # "" THEN StoreInsert(st, vehicle, position, name)
    ELSE st

update_position_write(st, has_data, vehicle, position, name) ==
    LET call == PendingCall(has_data, name)
    IN  IF call = "update" THEN StoreUpdate(st, vehicle, position, name)
        ELSE IF call = "delete" THEN StoreDelete(st, vehicle, position)
        ELSE IF call = "insert" THEN StoreInsert(st, vehicle, position, name)
        ELSE st

\* Mutant: the dirty flag is cleared whatever the outcome.
SaveClearsFlag_always(all_ok) == TRUE

\* Whether the Save handler clears is_changed once every item was attempted.
SaveClearsFlag(all_ok) == all_ok

\* Mutant: the loop breaks at the first failed write.
SaveLoopDone_break(i, n, ok) == i = n \/ ~ ok

\* Whether the item just attempted was the loop's last: a failure does not break it.
SaveLoopDone(i, n, ok) == i = n

\* update_position returned ok for the current item: next item, or the end of the Save.
Advance(s, ok) ==
    LET all_ok == success[s] /\ ok
        last == SaveLoopDone(idx[s], Len(FlatItems(positions[s])), ok)
    IN  /\ success' = [success EXCEPT ![s] = all_ok]
        /\ failedSlots' = [failedSlots EXCEPT ![s] = IF ok THEN @ ELSE @ \cup {CurSlot(s)}]
        /\ found' = [found EXCEPT ![s] = FALSE]
        /\ idx' = [idx EXCEPT ![s] = IF last THEN 0 ELSE @ + 1]
        /\ pc' = [pc EXCEPT ![s] = IF last THEN "idle" ELSE "select"]
        /\ is_changed' = [is_changed EXCEPT
                             ![s] = IF last /\ SaveClearsFlag(all_ok) THEN FALSE ELSE @]
        /\ page' = [page EXCEPT ![s] = IF last /\ all_ok THEN "home" ELSE @]
        /\ baseline' = [baseline EXCEPT
                           ![s] = IF last /\ all_ok THEN positions[s] ELSE @]

\* The "Save Deployment" button, up to the first transport call.
SaveStart(s) ==
    /\ pc[s] = "idle"
    /\ page[s] = "edit"
    /\ success' = [success EXCEPT ![s] = TRUE]
    /\ failedSlots' = [failedSlots EXCEPT ![s] = {}]
    /\ IF FlatItems(positions[s]) = <<>>
       THEN /\ is_changed' = [is_changed EXCEPT ![s] = FALSE]
            /\ page' = [page EXCEPT ![s] = "home"]
            /\ baseline' = [baseline EXCEPT ![s] = positions[s]]
            /\ UNCHANGED <<pc, idx>>
       ELSE /\ pc' = [pc EXCEPT ![s] = "select"]
            /\ idx' = [idx EXCEPT ![s] = 1]
            /\ UNCHANGED <<is_changed, page, baseline>>
    /\ UNCHANGED <<store, positions, found, overlap, loaded, trail, current_deployment, touched>>
    /\ csv_data' = [csv_data EXCEPT ![s] = <<>>]

\* update_position's select (lines 57-67), and its return when no write follows.
UpdSelect(s, ok) ==
    /\ pc[s] = "select"
    /\ LET item == CurItem(s)
           has_data == SlotRows(store, item[1], item[2]) # {}
       IN  IF ok /\ PendingCall(has_data, item[3]) # "none"
           THEN /\ pc' = [pc EXCEPT ![s] = "write"]
                /\ found' = [found EXCEPT ![s] = has_data]
                /\ UNCHANGED <<idx, success, failedSlots, is_changed, page, baseline>>
           ELSE Advance(s, ok)
    /\ overlap' = [overlap EXCEPT ![s] = FALSE]
    /\ UNCHANGED <<store, positions, loaded, trail, current_deployment, touched>>
    /\ csv_data' = [csv_data EXCEPT ![s] = <<>>]

\* update_position's insert, update or delete (lines 69-94), and its return.
UpdWrite(s, ok) ==
    /\ pc[s] = "write"
    /\ store' = IF ok
                THEN update_position_write(store, found[s], CurItem(s)[1], CurItem(s)[2],
                                           CurItem(s)[3])
                ELSE store
    /\ overlap' = [u \in Sessions |->
                      IF u = s THEN FALSE
                      ELSE IF ok /\ pc[u] = "write" /\ CurSlot(u) = CurSlot(s) THEN TRUE
                      ELSE overlap[u]]
    /\ Advance(s, ok)
    /\ UNCHANGED <<positions, loaded, trail, current_deployment, touched>>
    /\ csv_data' = [csv_data EXCEPT ![s] = <<>>]

----------------------------------------------------------------------------
(* Specifications *)

SessionStep(s) ==
    \/ SaveStart(s)
    \/ \E ok \in BOOLEAN : UpdSelect(s, ok)
    \/ \E ok \in BOOLEAN : UpdWrite(s, ok)
    \/ \E ok \in BOOLEAN : AppStart(s, ok)
    \/ \E ok \in BOOLEAN : NavSummary(s, ok)
    \/ \E ok \in BOOLEAN : NavEdit(s, ok)
    \/ \E slot \in Widgets, new_value \in Names : OnSelectChange(s, slot[1], slot[2], new_value)
    \/ ClearForm(s)
    \/ Export(s)

\* One session, no other writer.
Next == \E s \in SoloSessions : SessionStep(s)

Spec == Init /\ [][Next]_vars

\* Independent sessions against the same table, all working on one slot.
ConcStep(s) ==
    \/ SaveStart(s)
    \/ \E ok \in BOOLEAN : UpdSelect(s, ok)
    \/ \E ok \in BOOLEAN : UpdWrite(s, ok)
    \/ \E ok \in BOOLEAN : AppStart(s, ok)
    \/ \E ok \in BOOLEAN : NavSummary(s, ok)
    \/ \E ok \in BOOLEAN : NavEdit(s, ok)
    \/ \E slot \in ConcWidgets, new_value \in Names :
           OnSelectChange(s, slot[1], slot[2], new_value)
    \/ ClearForm(s)

NextConc == \E s \in Sessions : ConcStep(s)

SpecConc == Init /\ [][NextConc]_vars

\* One session, loading, editing and saving against a table that already holds
\* a stale name.
StaleStep(s) ==
    \/ SaveStart(s)
    \/ \E ok \in BOOLEAN : UpdSelect(s, ok)
    \/ \E ok \in BOOLEAN : UpdWrite(s, ok)
    \/ \E ok \in BOOLEAN : AppStart(s, ok)
    \/ \E ok \in BOOLEAN : NavSummary(s, ok)
    \/ \E ok \in BOOLEAN : NavEdit(s, ok)
    \/ \E slot \in Widgets, new_value \in Names : OnSelectChange(s, slot[1], slot[2], new_value)
    \/ ClearForm(s)

NextStale == \E s \in SoloSessions : StaleStep(s)

SpecStale == InitStale /\ [][NextStale]_vars

----------------------------------------------------------------------------
(* Vocabulary of the properties *)

\* The Store holds for the slot exactly what a call with this name asks for.
SlotHolds(st, slot, name) ==
    IF name = "" THEN SlotRows(st, slot[1], slot[2]) = {}
    ELSE /\ Cardinality(SlotRows(st, slot[1], slot[2])) = 1
         /\ \A r \in SlotRows(st, slot[1], slot[2]) : r.personnel_name = name

\* Session s takes a step of a Save.
SaveStep(s) ==
    \/ SaveStart(s)
    \/ \E ok \in BOOLEAN : UpdSelect(s, ok)
    \/ \E ok \in BOOLEAN : UpdWrite(s, ok)

\* This step ends a Save of session s.
SaveEnds(s) == SaveStep(s) /\ pc'[s] = "idle"

\* This step ends a Save of session s in which every update_position returned True.
SaveEndsOK(s) == SaveEnds(s) /\ success'[s]

\* This step is a failed Store operation of session s.
StoreOpFails(s) ==
    \/ AppStart(s, FALSE)
    \/ is_changed[s] /\ NavSummary(s, FALSE)
    \/ NavEdit(s, FALSE)
    \/ UpdSelect(s, FALSE)
    \/ UpdWrite(s, FALSE)

----------------------------------------------------------------------------
(* C1..C10 *)

\* C1: in every reachable state, also under interleaved update_position calls
\* of independent sessions, a slot has at most one row in the assignments table.
C1_OneRowPerSlot ==
    \A slot \in SchemaSlots : Cardinality(SlotRows(store, slot[1], slot[2])) <= 1

\* C2: last-write-wins. When a session applies its write to a slot that another
\* session wrote since this session's select, and no other call has a write to
\* that slot still to come, the slot then holds exactly what this call asked for.
C2_LastWriteWins ==
    [][\A s \in Sessions :
          (/\ UpdWrite(s, TRUE)
           /\ overlap[s]
           /\ ~ \E u \in Sessions \ {s} : pc[u] = "write" /\ CurSlot(u) = CurSlot(s))
          => SlotHolds(store', CurSlot(s), CurItem(s)[3])]_vars

\* C3: after a Save in which every write succeeded (one session, no other
\* writer), the Store agrees with the Draft on every one of the 22 schema slots.
C3_FullSchemaSave ==
    [][\A s \in Sessions :
          SaveEndsOK(s)
          => \A slot \in SchemaSlots :
                SlotHolds(store', slot, get_position_value(positions[s], slot[1], slot[2]))]_vars

\* C4: whenever a script run of a session renders the summary page (and no load
\* of that run failed), the rows it shows are the Store's contents at that moment.
C4_SummaryShowsStore ==
    [][\A s \in Sessions :
          (ConcStep(s) /\ ~ StoreOpFails(s) /\ pc'[s] = "idle" /\ page'[s] = "home")
          => home_page(positions'[s]) = StoreView(store')]_vars

\* C5: a Save in which exactly one update_position failed is not reported as
\* successful, stays on the edit page, and every other item of the Draft is
\* reflected in the Store when it ends.
C5_PartialFailure ==
    [][\A s \in Sessions :
          (SaveEnds(s) /\ Cardinality(failedSlots'[s]) = 1)
          => /\ ~ success'[s]
             /\ page'[s] = "edit"
             /\ \A i \in DOMAIN FlatItems(positions[s]) :
                   LET item == FlatItems(positions[s])[i]
                   IN  <<item[1], item[2]>> \notin failedSlots'[s]
                       => SlotHolds(store', <<item[1], item[2]>>, item[3])]_vars

C5_Witness ==
    /\ pc["s1"] = "idle"
    /\ page["s1"] = "edit"
    /\ ~ success["s1"]
    /\ Cardinality(failedSlots["s1"]) = 1
    /\ Len(FlatItems(positions["s1"])) = 2
    /\ \E i \in DOMAIN FlatItems(positions["s1"]) :
          LET item == FlatItems(positions["s1"])[i]
          IN  /\ <<item[1], item[2]>> \notin failedSlots["s1"]
              /\ item[3] # ""
              /\ <<item[1], item[2], item[3]>> \notin loaded["s1"]
              /\ SlotHolds(store, <<item[1], item[2]>>, item[3])
    /\ \E i \in DOMAIN FlatItems(positions["s1"]) :
          LET item == FlatItems(positions["s1"])[i]
          IN  /\ <<item[1], item[2]>> \in failedSlots["s1"]
              /\ ~ SlotHolds(store, <<item[1], item[2]>>, item[3])

\* C6: a failed Store operation (load or slot write) leaves the session's Draft
\* and dirty flag as they were before it.
C6_FailureKeepsState ==
    [][\A s \in Sessions :
          StoreOpFails(s)
          => /\ DraftValues(positions'[s]) = DraftValues(positions[s])
             /\ is_changed'[s] = is_changed[s]]_vars

\* C7 as stated: right after a Save in which a slot write failed, is_changed is
\* true and the session is on the edit page.
C7_FailedSaveIsDirty ==
    [][\A s \in Sessions :
          (SaveEnds(s) /\ ~ success'[s]) => is_changed'[s] /\ page'[s] = "edit"]_vars

\* C7 amended: a Save that does not end in success leaves the dirty flag as it
\* was when Save was pressed (no step of it changes is_changed or the Draft), and
\* the session stays on the edit page.
C7_FailedSaveKeepsFlag ==
    [][\A s \in Sessions :
          (SaveStep(s) /\ ~ (pc'[s] = "idle" /\ success'[s]))
          => /\ is_changed'[s] = is_changed[s]
             /\ positions'[s] = positions[s]
             /\ page'[s] = "edit"]_vars

C7_Witness ==
    /\ pc["s1"] = "idle"
    /\ page["s1"] = "edit"
    /\ ~ success["s1"]
    /\ failedSlots["s1"] # {}
    /\ is_changed["s1"]

\* C8: a slot that had a row when the Draft was loaded and whose Draft value is
\* empty has no row after a successful Save.
C8_DeleteOnEmpty ==
    [][\A s \in Sessions :
          SaveEndsOK(s)
          => \A t \in loaded[s] :
                get_position_value(positions[s], t[1], t[2]) = ""
                => SlotRows(store', t[1], t[2]) = {}]_vars

C8_Witness ==
    /\ pc["s1"] = "idle"
    /\ page["s1"] = "home"
    /\ success["s1"]
    /\ trail["s1"] = "edited"
    /\ \E t \in loaded["s1"] :
          /\ t[3] # ""
          /\ get_position_value(positions["s1"], t[1], t[2]) = ""
          /\ SlotRows(store, t[1], t[2]) = {}
    /\ \E t \in loaded["s1"] :
          /\ get_position_value(positions["s1"], t[1], t[2]) = t[3]
          /\ SlotHolds(store, <<t[1], t[2]>>, t[3])

\* C9: Reset All empties the Draft value of every schema slot and marks the
\* Draft dirty, and a successful Save that follows leaves no row for any slot
\* that was loaded from the Store.
C9_ResetAll ==
    [][\A s \in Sessions :
          /\ ClearForm(s)
             => /\ \A slot \in SchemaSlots :
                      get_position_value(positions'[s], slot[1], slot[2]) = ""
                /\ is_changed'[s]
          /\ (SaveEndsOK(s) /\ trail[s] = "reset")
             => \A t \in loaded[s] : SlotRows(store', t[1], t[2]) = {}]_vars

C9_Witness ==
    /\ pc["s1"] = "idle"
    /\ page["s1"] = "home"
    /\ success["s1"]
    /\ trail["s1"] = "reset"
    /\ Cardinality(loaded["s1"]) = 2
    /\ \A t \in loaded["s1"] : t[3] # ""
    /\ store = {}

----------------------------------------------------------------------------
(* C11..C20 *)

\* C11: there is never more than one current_deployment record, and once a
\* Save has attempted all its slot writes exactly one record exists (the one
\* carrying the time of that save).
C11_DeploymentTouched ==
    [][/\ Cardinality(current_deployment') <= 1
       /\ \A s \in Sessions : SaveEnds(s) => Cardinality(current_deployment') = 1]_vars

\* This step is a successful write of session s that issues the given call.
WriteCall(s, call) ==
    UpdWrite(s, TRUE) /\ PendingCall(found[s], CurItem(s)[3]) = call

\* C12: a save of one non-empty slot into an empty Store leaves exactly one
\* row, for that slot and name, with created_at = updated_at; a later
\* non-empty save of the slot changes the row's updated_at and keeps its
\* created_at.
C12_CreateThenTouch ==
    [][\A s \in Sessions :
          /\ WriteCall(s, "insert") /\ store = {} =>
                /\ Cardinality(store') = 1
                /\ \A r \in store' :
                      /\ <<r.vehicle_code, r.position_code>> = CurSlot(s)
                      /\ r.personnel_name = CurItem(s)[3]
                      /\ r.created_at = r.updated_at
          /\ WriteCall(s, "update") =>
                \A r \in SlotRows(store, CurSlot(s)[1], CurSlot(s)[2]) :
                   \E r2 \in store' :
                      /\ r2.id = r.id
                      /\ r2.created_at = r.created_at
                      /\ r2.updated_at # r.updated_at]_vars

\* The update_position call session s is in returns True with this step.
ReturnsTrue(s) ==
    /\ pc'[s] # "write"
    /\ success'[s] = success[s]
    /\ failedSlots'[s] = failedSlots[s]

\* C13: a call of update_position that no other session interleaves with and
\* whose transport calls succeed does the four-case upsert and returns True:
\* name and no row -> one new row with a fresh id holding name; name and a
\* row -> the row holds name, no row added; no name and a row -> the slot has
\* no row; no name and no row -> Store unchanged.
C13_FourCaseUpsert ==
    [][\A s \in Sessions :
          LET vehicle == CurItem(s)[1]
              position == CurItem(s)[2]
              name == CurItem(s)[3]
              rows == SlotRows(store, vehicle, position)
          IN  /\ UpdSelect(s, TRUE) /\ name = "" /\ rows = {} =>
                    store' = store /\ ReturnsTrue(s)
              /\ UpdSelect(s, TRUE) /\ ~ (name = "" /\ rows = {}) =>
                    store' = store /\ pc'[s] = "write"
              /\ UpdWrite(s, TRUE) => ReturnsTrue(s)
              /\ UpdWrite(s, TRUE) /\ name # "" /\ rows = {} =>
                    /\ store \subseteq store'
                    /\ Cardinality(store' \ store) = 1
                    /\ \A r \in store' \ store :
                          /\ \A q \in store : q.id # r.id
                          /\ r.vehicle_code = vehicle
                          /\ r.position_code = position
                          /\ r.personnel_name = name
              /\ UpdWrite(s, TRUE) /\ name # "" /\ rows # {} =>
                    /\ {r.id : r \in store'} = {r.id : r \in store}
                    /\ Cardinality(store') = Cardinality(store)
                    /\ \A r \in SlotRows(store', vehicle, position) : r.personnel_name = name
                    /\ {r.id : r \in SlotRows(store', vehicle, position)} = {r.id : r \in rows}
              /\ UpdWrite(s, TRUE) /\ name = "" =>
                    /\ rows # {}
                    /\ SlotRows(store', vehicle, position) = {}
                    /\ store' = store \ rows]_vars

\* A Save whose first call replaced the name of an existing row and returned True.
C13_Witness ==
    /\ pc["s1"] = "select"
    /\ idx["s1"] = 2
    /\ success["s1"]
    /\ LET item == FlatItems(positions["s1"])[1]
       IN  /\ item[3] # ""
           /\ \E n \in Names \ {"", item[3]} : <<item[1], item[2], n>> \in loaded["s1"]
           /\ SlotHolds(store, <<item[1], item[2]>>, item[3])
           /\ Cardinality(store) = 2

\* C14: on_select_change sets is_changed exactly when the selected value
\* differs from the value the Draft holds for the slot (a missing slot holds
\* ""); selecting the value the slot already holds keeps the Draft's values
\* and the flag, and a second identical selection leaves the Draft and the
\* flag exactly as the first left them.
C14_IdempotentDirtiness ==
    [][\A s \in Sessions : \A slot \in Widgets : \A new_value \in Names :
          OnSelectChange(s, slot[1], slot[2], new_value) =>
             LET old_value == get_position_value(positions[s], slot[1], slot[2])
             IN  /\ is_changed'[s] = (is_changed[s] \/ new_value # old_value)
                 /\ get_position_value(positions'[s], slot[1], slot[2]) = new_value
                 /\ new_value = old_value =>
                       DraftValues(positions'[s]) = DraftValues(positions[s])
                 /\ on_select_change_positions(positions'[s], slot[1], slot[2], new_value)
                       = positions'[s]
                 /\ on_select_change_flag(positions'[s], is_changed'[s], slot[1], slot[2],
                                          new_value) = is_changed'[s]]_vars

\* The value a slot already held was selected again on a clean, non-empty Draft.
C14_Witness ==
    /\ pc["s1"] = "idle"
    /\ page["s1"] = "edit"
    /\ trail["s1"] = "edited"
    /\ ~ is_changed["s1"]
    /\ \E slot \in Widgets : get_position_value(positions["s1"], slot[1], slot[2]) # ""

\* The export row of a slot that holds a name.
ExportRow(slot, name) ==
    [Vehicle |-> slot[1], Position |-> slot[2],
     Role_Description |-> role_descriptions(slot[2]), Name |-> name]

\* C15: the rows Export CSV builds are exactly the slots whose Draft value is
\* non-empty, one row per slot, each with the slot's vehicle, position, the
\* description role_descriptions gives for the position, and the name; a slot
\* whose value is empty or absent gets no row.
C15_ExportContent ==
    [][\A s \in Sessions :
          Export(s) =>
             LET filled == {slot \in SchemaSlots :
                               get_position_value(positions[s], slot[1], slot[2]) # ""}
             IN  /\ Range(csv_data'[s]) =
                       {ExportRow(slot, get_position_value(positions[s], slot[1], slot[2])) :
                           slot \in filled}
                 /\ Len(csv_data'[s]) = Cardinality(filled)]_vars

\* An export of one row from a Draft that also holds a slot with the value "".
C15_Witness ==
    /\ Len(csv_data["s1"]) = 1
    /\ csv_data["s1"][1].Role_Description \in {"ROTA COMMANDER", "PARAMEDIC"}
    /\ \E item \in DraftView(positions["s1"]) : item[3] = ""

\* The place of a vehicle in the schema's order.
VehicleRank(vehicle) == CHOOSE k \in DOMAIN VehicleList : VehicleList[k] = vehicle

\* C16: the export rows are in schema order: vehicles in the order PL181,
\* LF181E, CPL181E, A181D, A182D and positions of one vehicle by the rank table,
\* whatever order the Store returned the rows in or the user filled the slots in.
C16_ExportOrder ==
    \A s \in Sessions : \A i, j \in DOMAIN csv_data[s] :
       i < j =>
          \/ VehicleRank(csv_data[s][i].Vehicle) < VehicleRank(csv_data[s][j].Vehicle)
          \/ /\ csv_data[s][i].Vehicle = csv_data[s][j].Vehicle
             /\ order_position(csv_data[s][i].Position) < order_position(csv_data[s][j].Position)

\* This step is a load_positions call of session s.
LoadStep(s) ==
    \E ok \in BOOLEAN :
       \/ AppStart(s, ok)
       \/ NavEdit(s, ok)
       \/ is_changed[s] /\ NavSummary(s, ok)

\* The mapping has an entry for the slot.
HasEntry(d, slot) == \E item \in DraftView(d) : <<item[1], item[2]>> = slot

\* C17: the mapping load_positions returns has no entry for a slot without a
\* row in the Store, and get_position_value gives "" for it; a slot that has a
\* row is mapped to that row's name.
C17_LoadOmitsUnassigned ==
    [][\A s \in Sessions :
          LoadStep(s) =>
             \A slot \in SchemaSlots :
                LET rows == SlotRows(store, slot[1], slot[2])
                IN  /\ rows = {} =>
                          /\ ~ HasEntry(positions'[s], slot)
                          /\ get_position_value(positions'[s], slot[1], slot[2]) = ""
                    /\ rows # {} =>
                          /\ HasEntry(positions'[s], slot)
                          /\ \E r \in rows :
                                get_position_value(positions'[s], slot[1], slot[2])
                                   = r.personnel_name]_vars

\* C18: whatever the sessions load, edit, reset and save, no row of the
\* assignments table has the empty string as its personnel_name: an empty
\* Draft value is stored as the absence of a row.
C18_NoEmptyRecord ==
    \A r \in store : r.personnel_name # ""

\* A session saved a Draft whose slot, loaded with a name, holds "": no row is left.
C18_Witness ==
    \E s \in Sessions :
       /\ pc[s] = "idle"
       /\ page[s] = "home"
       /\ success[s]
       /\ \E item \in DraftView(positions[s]) :
             /\ item[3] = ""
             /\ \E n \in Names \ {""} : <<item[1], item[2], n>> \in loaded[s]
             /\ SlotRows(store, item[1], item[2]) = {}

\* This step belongs to an update_position call of session s, failed or not.
UpdStep(s) ==
    \E ok \in BOOLEAN : UpdSelect(s, ok) \/ UpdWrite(s, ok)

\* The Store after one more update_position(vehicle, position, name) that succeeds.
update_position_again(st, vehicle, position, name) ==
    update_position_write(st, SlotRows(st, vehicle, position) # {}, vehicle, position, name)

\* C19: an update_position call, successful or failed, leaves the rows of
\* every slot other than its own as they were, and running the same call once
\* more after it returned True leaves the Store as the first call left it.
C19_SlotIndependence ==
    [][\A s \in Sessions :
          UpdStep(s) =>
             /\ \A slot \in SchemaSlots \ {CurSlot(s)} :
                   SlotRows(store', slot[1], slot[2]) = SlotRows(store, slot[1], slot[2])
             /\ \A r \in store' \ store : <<r.vehicle_code, r.position_code>> = CurSlot(s)
             /\ (pc'[s] # "write" /\ failedSlots'[s] = failedSlots[s]) =>
                   update_position_again(store', CurItem(s)[1], CurItem(s)[2], CurItem(s)[3])
                      = store']_vars

\* Session s presses "Summary View" or "Edit Deployment".
NavStep(s) ==
    \E ok \in BOOLEAN : NavSummary(s, ok) \/ NavEdit(s, ok)

\* C20: navigation with unsaved changes writes nothing to the Store, replaces
\* the Draft with what the Store holds and clears is_changed; the Store only
\* changes in steps of a Save.
C20_NavigationDiscards ==
    [][/\ \A s \in Sessions :
             is_changed[s] /\ NavStep(s) =>
                /\ store' = store
                /\ DraftView(positions'[s]) = StoreView(store)
                /\ ~ is_changed'[s]
       /\ store' # store => \E s \in Sessions : SaveStep(s)]_vars

----------------------------------------------------------------------------
(* C21..C24 *)

\* The script run of a handler is synchronous: a Save that has started goes on
\* to its next transport call, which completes or fails.
FairSpec == Spec /\ WF_vars(\E s \in SoloSessions : UpdStep(s))

\* Session s is inside the Save loop.
InSave(s) == pc[s] \in {"select", "write"}

\* C21: a Save attempts update_position exactly once for every item of the
\* Draft, in order, whatever calls fail: a step of the loop either stays at
\* its item (select done, write pending) or moves to the next one, never back
\* and never past one; the loop ends only after the last item; nothing else
\* of the session runs in between; and every Save that started returns.
C21_SaveRunsToCompletion ==
    /\ [][\A s \in Sessions :
             LET n == Len(FlatItems(positions[s]))
             IN  /\ SaveStart(s) => idx'[s] = (IF n = 0 THEN 0 ELSE 1)
                 /\ InSave(s) /\ (pc'[s] # pc[s] \/ idx'[s] # idx[s]) =>
                       /\ UpdStep(s)
                       /\ positions'[s] = positions[s]
                       /\ \/ pc[s] = "select" /\ pc'[s] = "write" /\ idx'[s] = idx[s]
                          \/ pc'[s] = "select" /\ idx'[s] = idx[s] + 1 /\ idx[s] < n
                          \/ pc'[s] = "idle" /\ idx[s] = n
                 /\ InSave(s) /\ (\E ok \in BOOLEAN : UpdWrite(s, ok)) => pc'[s] # "write"]_vars
    /\ \A s \in SoloSessions : InSave(s) ~> pc[s] = "idle"

\* A Save returned after the calls for both of its items failed.
C21_Witness ==
    /\ pc["s1"] = "idle"
    /\ ~ success["s1"]
    /\ Len(FlatItems(positions["s1"])) = 2
    /\ failedSlots["s1"] = {<<item[1], item[2]>> : item \in DraftView(positions["s1"])}

\* C22: whenever is_changed is set, some slot's Draft value differs from the
\* value the slot had at the last load or successful Save, also after a slot
\* was changed and changed back and after Reset All on an all-empty Draft.
C22_DirtyMeansDiffers ==
    \A s \in Sessions : is_changed[s] => DraftValues(positions[s]) # DraftValues(baseline[s])

\* C23: whenever is_changed is false, every slot's Draft value is the value
\* the slot had at the last load or fully successful Save: an on_select_change
\* or Reset All that changes a value leaves the flag set until then.
C23_CleanMeansSaved ==
    \A s \in Sessions : ~ is_changed[s] => DraftValues(positions[s]) = DraftValues(baseline[s])

\* A clean session whose Draft holds an edited value that a successful Save stored.
C23_Witness ==
    /\ pc["s1"] = "idle"
    /\ page["s1"] = "home"
    /\ ~ is_changed["s1"]
    /\ trail["s1"] = "edited"
    /\ \E item \in DraftView(positions["s1"]) :
          /\ item[3] # ""
          /\ item \notin loaded["s1"]
          /\ get_position_value(baseline["s1"], item[1], item[2]) = item[3]

\* The Assignment the Store holds for the slot: the names of its rows.
Assignment(st, slot) == {r.personnel_name : r \in SlotRows(st, slot[1], slot[2])}

\* C24: with no other session writing, no step of a Save changes the Store's
\* Assignment (presence and personnel_name, a stale name included) of a slot
\* whose Draft value neither on_select_change nor Reset All changed since the
\* Draft was loaded, whatever the Save does to the other slots.
C24_SaveKeepsUntouched ==
    [][\A s \in Sessions :
          SaveStep(s) =>
             \A slot \in SchemaSlots \ touched[s] :
                Assignment(store', slot) = Assignment(store, slot)]_vars

\* A Save wrote an edited slot and returned; the untouched slot still holds the stale name.
C24_Witness ==
    /\ pc["s1"] = "idle"
    /\ page["s1"] = "home"
    /\ success["s1"]
    /\ touched["s1"] = {<<"PL181", "RC">>}
    /\ Assignment(store, <<"A181D", "PRM">>) = {StaleName}
    /\ get_position_value(positions["s1"], "A181D", "PRM") = StaleName
    /\ \E n \in Names \ {""} : Assignment(store, <<"PL181", "RC">>) = {n}

====
